---- MODULE Spec2Model ----
(***************************************************************************)
(* Streaming tool-call orchestration of the chat client: the chat store,  *)
(* the tool store, the tool registry, the Groq and Gemini adapters and    *)
(* ChatContainer.handleSendMessage, as a state machine.                   *)
(*                                                                         *)
(* Strings are sequences of atoms (an atom stands for a non-empty piece   *)
(* of text), so that concatenation, trimming and emptiness are computed.  *)
(***************************************************************************)
EXTENDS Integers, Sequences, FiniteSets, TLC

(***************************************************************************)
(* Bounds of the model                                                     *)
(***************************************************************************)
MaxTurns == 2          \* invocations of handleSendMessage in one behaviour
MaxConvs == 2          \* conversations ever created
MaxDeltas == 2         \* text chunks the provider emits, over all turns
MaxFragments == 2      \* tool-call fragments / function calls, over all turns

Turns == 1..MaxTurns

(***************************************************************************)
(* Vocabulary                                                              *)
(***************************************************************************)
NoConv == 0                     \* activeConversationId = null
NoError == "null"               \* error = null
Providers == {"groq", "gemini"}

EmptyResponseText == <<"I received an empty response from the AI.">>
DefaultErrorText == "An error occurred"
ProviderErrorText == "provider request failed"
SyntaxErrorText == "Unexpected token in JSON"
TypeErrorText == "Cannot read properties of undefined (reading 'function')"
ReplaceErrorText == "Cannot read properties of undefined (reading 'replace')"
UpperCaseErrorText == "Cannot read properties of undefined (reading 'toUpperCase')"
UnknownToolText == "Unknown tool"

\* What the user types into MessageInput
InputTexts == { <<"hello">>, <<" ", "hello", " ">>, <<" ">>, <<>> }
\* EmptyState suggestions
Suggestions == { <<"What", " ", "can", " ", "you", " ", "help", " ", "me", " ", "with?">> }

\* Text chunks of a provider stream (delta.content); "" is a possible chunk
Deltas == { <<>>, <<"a">>, <<"b">> }

\* Entries of delta.tool_calls as the provider streams them (without the index):
\* whole calls, the head of a call, and continuation pieces of the argument string
ToolFragments ==
    { [id |-> "call_a", name |-> "calculate", arguments |-> "{req}"],
      [id |-> "call_a", name |-> "calculate", arguments |-> "{}"],
      [id |-> "call_b", name |-> "web_search", arguments |-> "{req}"],
      [id |-> "call_c", name |-> "bogus_tool", arguments |-> "{}"],
      [id |-> "call_a", name |-> "calculate", arguments |-> ""],
      [id |-> "", name |-> "", arguments |-> "{req}"],
      [id |-> "", name |-> "", arguments |-> "{"] }
MaxIndex == 1

\* useSettingsStore: the defaults and the values the sliders are moved to,
\* temperature in tenths and topP in hundredths
DefaultTemperature == 7
DefaultTopP == 95
Temperatures == { 0, DefaultTemperature }
TopPs == { 0, DefaultTopP }
NotSent == -1                   \* a parameter the request does not carry

\* withRetry: the defaults of its options, the options it is called with
\* (delays in milliseconds) and the errors fn throws
DefaultMaxRetries == 3
DefaultBaseDelay == 1000
DefaultMaxDelay == 30000
RetryCounts == 0..DefaultMaxRetries
BaseDelays == { DefaultBaseDelay, 20 * DefaultBaseDelay }
MaxDelays == { DefaultMaxDelay }
RetryableErrors == { "429 Too Many Requests", "request timeout" }
FnErrors == RetryableErrors \cup { "400 Bad Request" }

\* useToolStore: the ids of AVAILABLE_TOOLS
ToolIds == { "web_search", "get_current_time", "calculator", "deep_research" }
\* FUNCTION_DECLARATIONS: the names of the declared functions
FunctionNames ==
    { "web_search", "get_current_time", "calculate", "get_weather",
      "get_stock_price", "generate_image" }
\* toolIdToFunctionName of the two adapters
GroqToolIdToFunctionName ==
    [web_search |-> "web_search", get_current_time |-> "get_current_time",
     calculator |-> "calculate", weather |-> "get_weather",
     stock_data |-> "get_stock_price", image_generation |-> "generate_image"]
GeminiToolIdToFunctionName ==
    [web_search |-> "web_search", get_current_time |-> "get_current_time",
     calculator |-> "calculate"]

\* The title argument of createConversation (<<>>: omitted) and of
\* updateConversationTitle
Titles == { <<>>, <<"Plans">> }
ExplicitTitles == Titles \ { <<>> }
\* Messages handed to addMessage by a direct call: a short and a long content
MessageTexts == { <<"hello">> } \cup Suggestions
MaxMessages == 2        \* message ids taken before the last call that adds messages
Hole == [hole |-> TRUE]         \* an empty slot of a sparse array

(***************************************************************************)
(* State                                                                   *)
(***************************************************************************)
VARIABLES
    chatStore,      \* useChatStore: conversations, activeConversationId,
                    \*               isGenerating, error
    toolStore,      \* useToolStore: isExecuting, currentToolCall (<<>> is null)
    nextId,         \* generateId(): the next fresh conversation / message id
    turn,           \* the invocations of handleSendMessage and their locals
    wire,           \* what the provider has sent, per invocation
    settingsStore,  \* useSettingsStore: temperature (in tenths), topP (in hundredths)
    retry           \* a call of withRetry: its options, locals and position

vars == <<chatStore, toolStore, nextId, turn, wire, settingsStore, retry>>

(***************************************************************************)
(* String helpers                                                          *)
(***************************************************************************)
RECURSIVE TrimStart(_)
TrimStart(s) == IF s # <<>> /\ Head(s) = " " THEN TrimStart(Tail(s)) ELSE s

RECURSIVE TrimEnd(_)
TrimEnd(s) ==
    IF s # <<>> /\ s[Len(s)] = " " THEN TrimEnd(SubSeq(s, 1, Len(s) - 1)) ELSE s

\* String.prototype.trim
\* content used as it is, without trim()
TrimNone(s) == s

Trim(s) == TrimEnd(TrimStart(s))

\* b || a: the operands of || exchanged
OrElseSwapped(a, b) == IF b # <<>> THEN b ELSE a

\* a || b on strings: the empty string is falsy
OrElse(a, b) == IF a # <<>> THEN a ELSE b

RECURSIVE Concat(_)
Concat(ss) == IF ss = <<>> THEN <<>> ELSE Head(ss) \o Concat(Tail(ss))

TitleWords == 6

\* content.split(' ').slice(0, 6).join(' '), then '...' when content is longer
TitleOf(content) ==
    LET sp == { i \in 1..Len(content) : content[i] = " " }
        words == IF Cardinality(sp) < TitleWords THEN content
                 ELSE SubSeq(content, 1,
                        (CHOOSE i \in sp :
                            Cardinality({ j \in sp : j < i }) = TitleWords - 1) - 1)
    IN  IF Len(words) < Len(content) THEN words \o <<"...">> ELSE words

(***************************************************************************)
(* Chat store (stores/chatStore.ts); s is the store's state                *)
(***************************************************************************)
NoMeta == [k \in {} |-> TRUE]   \* a message without metadata

HasConv(convs, id) == \E i \in 1..Len(convs) : convs[i].id = id
ConvIndex(convs, id) == CHOOSE i \in 1..Len(convs) : convs[i].id = id
ConvOf(convs, id) == convs[ConvIndex(convs, id)]

IsStreaming(m) == "isStreaming" \in DOMAIN m.metadata /\ m.metadata.isStreaming

\* createConversation(title): the new conversation is put first and made
\* active; title is <<>> when the argument is omitted.
\* updatedAt counts the assignments updatedAt = new Date() after the creation.
createConversation(s, id, title) ==
    [s EXCEPT
       !.conversations =
           <<[id |-> id, title |-> OrElse(title, <<"New Chat">>), messageCount |-> 0,
              updatedAt |-> 0, toolsUsed |-> <<>>, messages |-> <<>>]>>
           \o s.conversations,
       !.activeConversationId = id]

\* deleteConversation(id)
deleteConversation(s, id) ==
    LET convs == s.conversations
        rest == IF ~HasConv(convs, id) THEN convs
                ELSE SubSeq(convs, 1, ConvIndex(convs, id) - 1)
                     \o SubSeq(convs, ConvIndex(convs, id) + 1, Len(convs))
    IN  [s EXCEPT
           !.conversations = rest,
           !.activeConversationId =
               IF s.activeConversationId = id
               THEN (IF rest # <<>> THEN rest[1].id ELSE NoConv)
               ELSE s.activeConversationId]

\* setActiveConversation(id)
setActiveConversation(s, id) ==
    [s EXCEPT !.activeConversationId = id, !.error = NoError]

\* updateConversationTitle(id, title)
updateConversationTitle(s, id, title) ==
    LET convs == s.conversations IN
    IF ~HasConv(convs, id) THEN s
    ELSE [s EXCEPT !.conversations[ConvIndex(convs, id)] =
            [@ EXCEPT !.title = title, !.updatedAt = @ + 1]]

\* setConversations(conversations)
setConversations(s, conversations) == [s EXCEPT !.conversations = conversations]

\* addMessage with messages.unshift(message) in place of messages.push(message)
addMessageUnshift(s, convId, message) ==
    LET convs == s.conversations IN
    IF ~HasConv(convs, convId) THEN s
    ELSE LET i == ConvIndex(convs, convId)
             c == convs[i]
             msgs == <<message>> \o c.messages
             tracked == /\ "toolName" \in DOMAIN message.metadata
                        /\ message.metadata.toolName # <<>>
                        /\ \A k \in 1..Len(c.toolsUsed) :
                               c.toolsUsed[k] # message.metadata.toolName
         IN  [s EXCEPT !.conversations[i] =
                [c EXCEPT
                   !.messages = msgs,
                   !.messageCount = Len(msgs),
                   !.updatedAt = @ + 1,
                   !.title = IF Len(msgs) = 1 /\ message.role = "user"
                             THEN TitleOf(message.content) ELSE c.title,
                   !.toolsUsed = IF tracked
                                 THEN Append(c.toolsUsed, message.metadata.toolName)
                                 ELSE c.toolsUsed]]

\* addMessage(conversationId, message): no-op when the conversation is absent
addMessage(s, convId, message) ==
    LET convs == s.conversations IN
    IF ~HasConv(convs, convId) THEN s
    ELSE LET i == ConvIndex(convs, convId)
             c == convs[i]
             msgs == Append(c.messages, message)
             tracked == /\ "toolName" \in DOMAIN message.metadata
                        /\ message.metadata.toolName # <<>>
                        /\ \A k \in 1..Len(c.toolsUsed) :
                               c.toolsUsed[k] # message.metadata.toolName
         IN  [s EXCEPT !.conversations[i] =
                [c EXCEPT
                   !.messages = msgs,
                   !.messageCount = Len(msgs),
                   !.updatedAt = @ + 1,
                   !.title = IF Len(msgs) = 1 /\ message.role = "user"
                             THEN TitleOf(message.content) ELSE c.title,
                   !.toolsUsed = IF tracked
                                 THEN Append(c.toolsUsed, message.metadata.toolName)
                                 ELSE c.toolsUsed]]

\* Object.assign(message, updates)
ObjectAssign(m, u) ==
    [k \in (DOMAIN m) \cup (DOMAIN u) |-> IF k \in DOMAIN u THEN u[k] ELSE m[k]]

\* updateMessage that assigns to the last message of the conversation
updateMessageLast(s, convId, msgId, updates) ==
    LET convs == s.conversations IN
    IF ~HasConv(convs, convId) THEN s
    ELSE LET i == ConvIndex(convs, convId)
             c == convs[i]
         IN  [s EXCEPT !.conversations[i].messages =
                [k \in 1..Len(c.messages) |->
                    IF k = Len(c.messages)
                    THEN ObjectAssign(c.messages[k], updates)
                    ELSE c.messages[k]]]

\* updateMessage(conversationId, messageId, updates): the first message with the id
updateMessage(s, convId, msgId, updates) ==
    LET convs == s.conversations IN
    IF ~HasConv(convs, convId) THEN s
    ELSE LET i == ConvIndex(convs, convId)
             c == convs[i]
         IN  [s EXCEPT !.conversations[i].messages =
                [k \in 1..Len(c.messages) |->
                    IF c.messages[k].id = msgId
                    THEN ObjectAssign(c.messages[k], updates)
                    ELSE c.messages[k]]]

\* deleteMessage without conversation.messageCount = conversation.messages.length
deleteMessageNoCount(s, convId, msgId) ==
    LET convs == s.conversations IN
    IF ~HasConv(convs, convId) THEN s
    ELSE LET i == ConvIndex(convs, convId)
             ms == convs[i].messages
             found == { k \in 1..Len(ms) : ms[k].id = msgId }
         IN  IF found = {} THEN s
             ELSE LET index == CHOOSE k \in found : \A j \in found : k <= j
                  IN  [s EXCEPT !.conversations[i].messages =
                          SubSeq(ms, 1, index - 1) \o SubSeq(ms, index + 1, Len(ms))]

\* deleteMessage(conversationId, messageId): the first message with the id
deleteMessage(s, convId, msgId) ==
    LET convs == s.conversations IN
    IF ~HasConv(convs, convId) THEN s
    ELSE LET i == ConvIndex(convs, convId)
             ms == convs[i].messages
             found == { k \in 1..Len(ms) : ms[k].id = msgId }
         IN  IF found = {} THEN s
             ELSE LET index == CHOOSE k \in found : \A j \in found : k <= j
                      rest == SubSeq(ms, 1, index - 1) \o SubSeq(ms, index + 1, Len(ms))
                  IN  [s EXCEPT !.conversations[i] =
                          [@ EXCEPT !.messages = rest, !.messageCount = Len(rest)]]

\* setGenerating(generating)
setGenerating(s, generating) == [s EXCEPT !.isGenerating = generating]

\* setError(error): also clears isGenerating
setError(s, e) == [s EXCEPT !.error = e, !.isGenerating = FALSE]

(***************************************************************************)
(* Tool store (setExecuting)                                               *)
(***************************************************************************)
setExecuting(ts, executing, toolCall) ==
    [ts EXCEPT !.isExecuting = executing,
               !.currentToolCall = IF executing THEN toolCall ELSE <<>>]

\* toggleTool(toolId)
toggleTool(ts, toolId) ==
    [ts EXCEPT !.enabledToolIds = IF toolId \in @ THEN @ \ {toolId}
                                  ELSE @ \cup {toolId}]

(***************************************************************************)
(* Initial state: empty stores, no invocation                              *)
(***************************************************************************)
\* withRetry before it is called; calls counts the invocations of fn, errors
\* are the errors fn has thrown, waits the timeouts that were set
IdleRetry ==
    [pc |-> "idle", maxRetries |-> 0, baseDelay |-> 0, maxDelay |-> 0,
     attempt |-> 0, calls |-> 0, errors |-> <<>>, waits |-> <<>>,
     lastError |-> NoError]

IdleTurn ==
    [pc |-> "idle", provider |-> "groq", convId |-> NoConv, msgId |-> 0,
     content |-> <<>>,                  \* ChatContainer: the argument content
     fullAssistantText |-> <<>>,        \* ChatContainer: fullAssistantText
     fullText |-> <<>>,                 \* adapter: fullText
     toolCalls_internal |-> <<>>,       \* adapter: pending requests
     toolCalls |-> <<>>,                \* adapter: executed calls with results
     tcIdx |-> 0,                       \* position of the for-of loop
     fullMessages |-> <<>>,             \* Groq: messages of the next request
     functionCalls |-> <<>>,            \* Gemini: response.functionCalls()
     functionResponseParts |-> <<>>,    \* Gemini: parts of the follow-up request
     errorMessage |-> NoError,          \* the message of the caught error
     enabledToolIds |-> {},             \* ChatContainer: enabledToolIds of the call
     requests |-> <<>>]                 \* the requests made to the provider

\* What the provider has sent for a turn; fragments are the entries of
\* delta.tool_calls of the stream that is being read
IdleWire ==
    [emitted |-> <<>>, issued |-> <<>>, nfrags |-> 0, rounds |-> 0, fragments |-> <<>>]

Init ==
    /\ chatStore = [conversations |-> <<>>, activeConversationId |-> NoConv,
                    isGenerating |-> FALSE, error |-> NoError]
    /\ toolStore = [isExecuting |-> FALSE, currentToolCall |-> <<>>,
                    enabledToolIds |-> ToolIds]
    /\ nextId = [conv |-> 1, msg |-> 1]
    /\ turn = [t \in Turns |-> IdleTurn]
    /\ wire = [t \in Turns |-> IdleWire]
    /\ settingsStore = [temperature |-> DefaultTemperature, topP |-> DefaultTopP]
    /\ retry = IdleRetry

(***************************************************************************)
(* Tool registry (lib/gemini/tools.ts).  An argument map is "full" when    *)
(* the schema-required argument is present and "empty" when it is missing. *)
(* A handler's outcome is a returned payload or a thrown error.            *)
(***************************************************************************)
ArgMaps == {"empty", "full"}

Success == [success |-> TRUE]
Failure(reason) == [success |-> FALSE, error |-> reason]
Return(payload) == [kind |-> "return", result |-> payload]
Throw(message) == [kind |-> "throw", message |-> message]

\* try { searchWeb } catch { success: false }
executeWebSearch(args) == { Return(Success), Return(Failure("Search failed")) }

\* try { format } catch { success: false }
executeGetCurrentTime(args) == { Return(Success), Return(Failure("Invalid timezone")) }

\* expression.replace(...) is outside the try block
executeCalculate(args) ==
    IF args = "empty" THEN { Throw(ReplaceErrorText) }
    ELSE { Return(Success), Return(Failure("Invalid mathematical expression")) }

\* missing key, or a fetch inside try/catch
executeGetWeather(args) ==
    { Return(Success), Return(Failure("Weather API key not configured")),
      Return(Failure("Failed to fetch weather information")) }

\* (args.symbol as string).toUpperCase()
executeGetStockPrice(args) ==
    IF args = "empty" THEN { Throw(UpperCaseErrorText) } ELSE { Return(Success) }

executeGenerateImage(args) == { Return(Success) }

\* executeToolCall that refuses a function whose tool is not enabled
executeToolCallGated(name, args) ==
    IF \A id \in toolStore.enabledToolIds \cap DOMAIN GroqToolIdToFunctionName :
           name # <<GroqToolIdToFunctionName[id]>>
    THEN { Return(Failure("Tool is disabled")) }
    ELSE CASE name = <<"web_search">> -> executeWebSearch(args)
           [] name = <<"get_current_time">> -> executeGetCurrentTime(args)
           [] name = <<"calculate">> -> executeCalculate(args)
           [] name = <<"get_weather">> -> executeGetWeather(args)
           [] name = <<"get_stock_price">> -> executeGetStockPrice(args)
           [] name = <<"generate_image">> -> executeGenerateImage(args)
           [] OTHER -> { Throw(UnknownToolText) }

\* executeToolCall(name, args): the outcomes the call can have
executeToolCall(name, args) ==
    CASE name = <<"web_search">> -> executeWebSearch(args)
      [] name = <<"get_current_time">> -> executeGetCurrentTime(args)
      [] name = <<"calculate">> -> executeCalculate(args)
      [] name = <<"get_weather">> -> executeGetWeather(args)
      [] name = <<"get_stock_price">> -> executeGetStockPrice(args)
      [] name = <<"generate_image">> -> executeGenerateImage(args)
      [] OTHER -> { Throw(UnknownToolText) }

\* Handlers that wait for the network before they return
IsAsyncTool(name) == name \in { <<"web_search">>, <<"get_weather">> }

\* JSON.parse of an argument string: <<>> when it throws, else <<args>>
JSONparse(str) ==
    CASE str = <<"{}">> -> <<"empty">>
      [] str = <<"{req}">> -> <<"full">>
      [] OTHER -> <<>>

\* JSON.stringify of a tool result
JSONstringify(r) ==
    IF r.success THEN <<"{\"success\":true}">>
    ELSE <<"{\"success\":false,\"error\":\"", r.error, "\"}">>

(***************************************************************************)
(* ChatContainer.handleSendMessage: from the call to the first await       *)
(***************************************************************************)
Mine(t, tr) == [turn EXCEPT ![t] = tr]

\* FUNCTION_DECLARATIONS mapped without the filter on enabledFunctionNames
DeclaredNamesUnfiltered(toolIdToFunctionName, enabledToolIds) ==
    { name \in FunctionNames :
        \E id \in DOMAIN toolIdToFunctionName : toolIdToFunctionName[id] = name }

\* FUNCTION_DECLARATIONS.filter(fd => enabledFunctionNames.includes(fd.name)):
\* the names of the declarations a request carries
DeclaredNames(toolIdToFunctionName, enabledToolIds) ==
    { name \in FunctionNames :
        \E id \in enabledToolIds \cap DOMAIN toolIdToFunctionName :
            toolIdToFunctionName[id] = name }

\* Groq: the parameters of the first client.chat.completions.create
GroqRequest(enabledToolIds) ==
    [tools |-> DeclaredNames(GroqToolIdToFunctionName, enabledToolIds),
     temperature |-> settingsStore.temperature,
     topP |-> NotSent]

\* Groq: the parameters of the create after the tool results
GroqFollowUpRequest == [tools |-> {}, temperature |-> NotSent, topP |-> NotSent]

\* Gemini: createModel's tools and generationConfig, which every
\* chat.sendMessage of the session carries
createModel(enabledToolIds) ==
    [tools |-> DeclaredNames(GeminiToolIdToFunctionName, enabledToolIds),
     temperature |-> settingsStore.temperature,
     topP |-> IF settingsStore.topP # 0 THEN settingsStore.topP ELSE DefaultTopP]

HistoryOf(s, convId) ==
    IF ~HasConv(s.conversations, convId) THEN <<>>
    ELSE LET ms == ConvOf(s.conversations, convId).messages
         IN  [k \in 1..Len(ms) |-> [role |-> ms[k].role, content |-> ms[k].content]]

handleSendMessage(t, content, p) ==
    LET text == Trim(content)
        fresh == chatStore.activeConversationId = NoConv
        s0 == IF fresh THEN createConversation(chatStore, nextId.conv, <<>>)
              ELSE chatStore
        id0 == nextId.msg
        convId == s0.activeConversationId
        history == HistoryOf(s0, convId)
        s1 == addMessage(s0, convId,
                [id |-> id0, role |-> "user", content |-> text, metadata |-> NoMeta])
        s2 == setError(setGenerating(s1, TRUE), NoError)
        s3 == addMessage(s2, convId,
                [id |-> id0 + 1, role |-> "assistant", content |-> <<>>,
                 metadata |-> [isStreaming |-> TRUE]])
    IN  /\ turn[t].pc = "idle"
        /\ \A u \in Turns : u < t => turn[u].pc # "idle"
        /\ IF text = <<>>
           THEN \* if (!text) return;
                /\ turn' = Mine(t, [IdleTurn EXCEPT !.pc = "returned",
                                                    !.content = content])
                /\ UNCHANGED <<chatStore, nextId>>
           ELSE /\ chatStore' = s3
                /\ nextId' = [conv |-> IF fresh THEN nextId.conv + 1 ELSE nextId.conv,
                               msg |-> id0 + 2]
                /\ turn' = Mine(t, [IdleTurn EXCEPT
                      !.pc = IF p = "groq" THEN "stream" ELSE "gfirst",
                      !.provider = p,
                      !.content = content,
                      !.enabledToolIds = toolStore.enabledToolIds,
                      !.requests = IF p = "groq"
                                   THEN <<GroqRequest(toolStore.enabledToolIds)>>
                                   ELSE <<createModel(toolStore.enabledToolIds)>>,
                      !.convId = convId,
                      !.msgId = id0 + 1,
                      !.fullMessages =
                          IF p = "groq"
                          THEN <<[role |-> "system", content |-> <<"SYSTEM_PROMPT">>]>>
                               \o history \o <<[role |-> "user", content |-> text]>>
                          ELSE <<>>])
        /\ UNCHANGED <<toolStore, settingsStore, retry, wire>>

\* handleSendMessage called with any string
CallHandleSendMessage(t) ==
    \E content \in InputTexts, p \in Providers : handleSendMessage(t, content, p)

\* MessageInput.handleSubmit: the form is inert while isGenerating
FormSubmit(t) ==
    \E input \in InputTexts, p \in Providers :
        /\ Trim(input) # <<>>
        /\ ~chatStore.isGenerating
        /\ handleSendMessage(t, Trim(input), p)

\* EmptyState is rendered while the active conversation has no message
EmptyStateShown ==
    IF HasConv(chatStore.conversations, chatStore.activeConversationId)
    THEN ConvOf(chatStore.conversations, chatStore.activeConversationId).messages = <<>>
    ELSE TRUE

SuggestionClick(t) ==
    \E suggestion \in Suggestions, p \in Providers :
        /\ EmptyStateShown
        /\ handleSendMessage(t, suggestion, p)

(***************************************************************************)
(* How an invocation ends                                                  *)
(***************************************************************************)
\* The catch block with the error message added to the active conversation
CatchActive(t, tr, message) ==
    LET errorMessage == IF message = "" THEN DefaultErrorText ELSE message
        s1 == setError(chatStore, errorMessage)
        s2 == addMessage(s1, chatStore.activeConversationId,
                [id |-> nextId.msg, role |-> "assistant",
                 content |-> <<"Error: ", errorMessage,
                               ". Please check your API keys and connection.">>,
                 metadata |-> [error |-> errorMessage]])
    IN  /\ chatStore' = setGenerating(s2, FALSE)
        /\ toolStore' = setExecuting(toolStore, FALSE, <<>>)
        /\ UNCHANGED <<settingsStore, retry>>
        /\ nextId' = [nextId EXCEPT !.msg = @ + 1]
        /\ turn' = Mine(t, [tr EXCEPT !.pc = "failed", !.errorMessage = errorMessage])

\* catch (err) { setError; addMessage(error message) } finally { ... }
Catch(t, tr, message) ==
    LET errorMessage == IF message = "" THEN DefaultErrorText ELSE message
        s1 == setError(chatStore, errorMessage)
        s2 == addMessage(s1, tr.convId,
                [id |-> nextId.msg, role |-> "assistant",
                 content |-> <<"Error: ", errorMessage,
                               ". Please check your API keys and connection.">>,
                 metadata |-> [error |-> errorMessage]])
    IN  /\ chatStore' = setGenerating(s2, FALSE)
        /\ toolStore' = setExecuting(toolStore, FALSE, <<>>)
        /\ UNCHANGED <<settingsStore, retry>>
        /\ nextId' = [nextId EXCEPT !.msg = @ + 1]
        /\ turn' = Mine(t, [tr EXCEPT !.pc = "failed", !.errorMessage = errorMessage])

\* The final update of the assistant message, then finally { ... }.
\* result.toolCalls is <<>> when undefined, <<list>> otherwise.
FinalUpdate(t, tr, resultText, resultToolCalls) ==
    LET calls == IF resultToolCalls = <<>> THEN <<>> ELSE resultToolCalls[1]
        meta0 == [thinkingTime |-> "elapsed",
                  toolResults |-> IF resultToolCalls = <<>> THEN [null |-> TRUE]
                                  ELSE [null |-> FALSE, calls |-> calls],
                  isStreaming |-> FALSE]
        meta == IF calls # <<>>
                THEN [k \in DOMAIN meta0 \cup {"toolName"} |->
                        IF k = "toolName" THEN calls[1].name ELSE meta0[k]]
                ELSE meta0
        s1 == updateMessage(chatStore, tr.convId, tr.msgId,
                [content |-> OrElse(resultText, OrElse(tr.fullAssistantText, EmptyResponseText)),
                 metadata |-> meta])
    IN  /\ chatStore' = setGenerating(s1, FALSE)
        /\ toolStore' = setExecuting(toolStore, FALSE, <<>>)
        /\ UNCHANGED <<settingsStore, retry>>
        /\ nextId' = nextId
        /\ turn' = Mine(t, [tr EXCEPT !.pc = "done"])

\* onToken writing to the conversation that is active when the token arrives
onTokenActive(s, tr, token) ==
    updateMessage(s, s.activeConversationId, tr.msgId,
                  [content |-> tr.fullAssistantText \o token])

\* onToken(token)
onToken(s, tr, token) ==
    updateMessage(s, tr.convId, tr.msgId,
                  [content |-> tr.fullAssistantText \o token])

(***************************************************************************)
(* The provider's side: how much it has sent so far                        *)
(***************************************************************************)
RECURSIVE SumOver(_, _)
SumOver(f, n) == IF n = 0 THEN 0 ELSE f[n] + SumOver(f, n - 1)

TotalDeltas == SumOver([t \in Turns |-> Len(wire[t].emitted)], MaxTurns)
TotalFragments == SumOver([t \in Turns |-> wire[t].nfrags], MaxTurns)

Sent(t, deltas, calls, nf, r) ==
    [wire EXCEPT ![t] = [emitted |-> @.emitted \o deltas,
                         issued |-> @.issued \o calls,
                         nfrags |-> @.nfrags + nf,
                         rounds |-> @.rounds + r,
                         fragments |-> IF r > 0 THEN <<>> ELSE @.fragments]]

\* The entries of a sparse array that are not holes, in index order
RECURSIVE Compact(_)
Compact(arr) ==
    IF arr = <<>> THEN <<>>
    ELSE IF Head(arr) = Hole THEN Compact(Tail(arr))
    ELSE <<Head(arr)>> \o Compact(Tail(arr))

(***************************************************************************)
(* Groq adapter (lib/groq/client.ts sendMessage)                           *)
(***************************************************************************)
\* arr[index] = v on a JavaScript array: the array grows, leaving holes
SetAt(arr, index, v) ==
    LET n == IF index + 1 > Len(arr) THEN index + 1 ELSE Len(arr)
    IN  [k \in 1..n |-> IF k = index + 1 THEN v
                        ELSE IF k <= Len(arr) THEN arr[k] ELSE Hole]

\* MergeFragment that keeps the first id of an index
MergeFragmentFirstId(arr, tc) ==
    LET present == tc.index + 1 <= Len(arr) /\ arr[tc.index + 1] # Hole
        cur == IF present THEN arr[tc.index + 1]
               ELSE [id |-> tc.id, name |-> <<>>, arguments |-> <<>>]
    IN  SetAt(arr, tc.index,
              [id |-> IF cur.id # "" THEN cur.id ELSE tc.id,
               name |-> IF tc.name # "" THEN cur.name \o <<tc.name>> ELSE cur.name,
               arguments |-> IF tc.arguments # "" THEN cur.arguments \o <<tc.arguments>>
                             ELSE cur.arguments])

\* One entry of delta.tool_calls merged into toolCalls_internal
MergeFragment(arr, tc) ==
    LET present == tc.index + 1 <= Len(arr) /\ arr[tc.index + 1] # Hole
        cur == IF present THEN arr[tc.index + 1]
               ELSE [id |-> tc.id, name |-> <<>>, arguments |-> <<>>]
    IN  SetAt(arr, tc.index,
              [id |-> IF tc.id # "" THEN tc.id ELSE cur.id,
               name |-> IF tc.name # "" THEN cur.name \o <<tc.name>> ELSE cur.name,
               arguments |-> IF tc.arguments # "" THEN cur.arguments \o <<tc.arguments>>
                             ELSE cur.arguments])

\* A chunk with delta.content
GroqContent(t) ==
    \E d \in Deltas :
        LET tr == turn[t]
            tr1 == [tr EXCEPT !.fullText = @ \o d, !.fullAssistantText = @ \o d]
        IN  /\ tr.pc = "stream"
            /\ TotalDeltas < MaxDeltas
            /\ chatStore' = IF d # <<>> THEN onToken(chatStore, tr, d) ELSE chatStore
            /\ turn' = Mine(t, tr1)
            /\ wire' = Sent(t, <<d>>, <<>>, 0, 0)
            /\ UNCHANGED <<toolStore, settingsStore, retry, nextId>>

\* A chunk with delta.tool_calls
GroqToolCallChunk(t) ==
    \E index \in 0..MaxIndex, f \in ToolFragments :
        LET tr == turn[t]
            tc == [index |-> index, id |-> f.id, name |-> f.name, arguments |-> f.arguments]
        IN  /\ tr.pc = "stream"
            /\ TotalFragments < MaxFragments
            /\ turn' = Mine(t, [tr EXCEPT !.toolCalls_internal = MergeFragment(@, tc)])
            /\ wire' = [Sent(t, <<>>, <<>>, 1, 0) EXCEPT ![t].fragments = Append(@, tc)]
            /\ UNCHANGED <<chatStore, toolStore, settingsStore, retry, nextId>>

\* The stream is exhausted: return the result, or enter the while loop
GroqStreamEnd(t) ==
    LET tr == turn[t] IN
    /\ tr.pc = "stream"
    /\ IF Len(tr.toolCalls_internal) = 0
       THEN /\ FinalUpdate(t, tr, tr.fullText, <<tr.toolCalls>>)
            /\ UNCHANGED wire
       ELSE /\ turn' = Mine(t, [tr EXCEPT
                  !.pc = "tools", !.tcIdx = 1,
                  !.fullMessages = Append(@, [role |-> "assistant",
                                              content |-> tr.fullText,
                                              tool_calls |-> tr.toolCalls_internal])])
            /\ wire' = Sent(t, <<>>, Compact(tr.toolCalls_internal), 0, 0)
            /\ UNCHANGED <<chatStore, toolStore, settingsStore, retry, nextId>>

\* GroqToolDone with toolCalls.unshift(...) in place of toolCalls.push(...)
GroqToolDoneUnshift(t, tr, ts, outcome) ==
    IF outcome.kind = "throw"
    THEN /\ Catch(t, tr, outcome.message)
         /\ UNCHANGED wire
    ELSE LET tc == tr.toolCalls_internal[tr.tcIdx]
             args == JSONparse(tc.arguments)[1]
             tr1 == [tr EXCEPT
                       !.toolCalls = <<[name |-> tc.name, args |-> args,
                                         result |-> outcome.result]>> \o @,
                       !.fullMessages = Append(@, [role |-> "tool",
                                                   tool_call_id |-> tc.id,
                                                   name |-> tc.name,
                                                   content |-> JSONstringify(outcome.result)])]
             last == tr.tcIdx = Len(tr.toolCalls_internal)
         IN  /\ turn' = Mine(t,
                  IF last
                  THEN [tr1 EXCEPT !.pc = "stream", !.tcIdx = 0,
                                   !.requests = Append(@, GroqFollowUpRequest),
                                   !.fullText = <<>>, !.toolCalls_internal = <<>>]
                  ELSE [tr1 EXCEPT !.pc = "tools", !.tcIdx = @ + 1])
             /\ wire' = Sent(t, <<>>, <<>>, 0, IF last THEN 1 ELSE 0)
             /\ toolStore' = ts
             /\ UNCHANGED <<settingsStore, retry>>
             /\ UNCHANGED <<chatStore, nextId>>

\* After executeToolCall has settled for the request at tcIdx
GroqToolDone(t, tr, ts, outcome) ==
    IF outcome.kind = "throw"
    THEN /\ Catch(t, tr, outcome.message)
         /\ UNCHANGED wire
    ELSE LET tc == tr.toolCalls_internal[tr.tcIdx]
             args == JSONparse(tc.arguments)[1]
             tr1 == [tr EXCEPT
                       !.toolCalls = Append(@, [name |-> tc.name, args |-> args,
                                                result |-> outcome.result]),
                       !.fullMessages = Append(@, [role |-> "tool",
                                                   tool_call_id |-> tc.id,
                                                   name |-> tc.name,
                                                   content |-> JSONstringify(outcome.result)])]
             last == tr.tcIdx = Len(tr.toolCalls_internal)
         IN  /\ turn' = Mine(t,
                  IF last
                  THEN [tr1 EXCEPT !.pc = "stream", !.tcIdx = 0,
                                   !.requests = Append(@, GroqFollowUpRequest),
                                   !.fullText = <<>>, !.toolCalls_internal = <<>>]
                  ELSE [tr1 EXCEPT !.pc = "tools", !.tcIdx = @ + 1])
             /\ wire' = Sent(t, <<>>, <<>>, 0, IF last THEN 1 ELSE 0)
             /\ toolStore' = ts
             /\ UNCHANGED <<settingsStore, retry>>
             /\ UNCHANGED <<chatStore, nextId>>

\* One iteration of for (const tc of toolCalls_internal), up to its await
GroqExecTool(t) ==
    LET tr == turn[t]
        tc == tr.toolCalls_internal[tr.tcIdx]
    IN  /\ tr.pc = "tools"
        /\ tr.provider = "groq"
        /\ IF tc = Hole
           THEN Catch(t, tr, TypeErrorText) /\ UNCHANGED wire
           ELSE IF JSONparse(tc.arguments) = <<>>
           THEN Catch(t, tr, SyntaxErrorText) /\ UNCHANGED wire
           ELSE LET args == JSONparse(tc.arguments)[1]
                    ts == setExecuting(toolStore, TRUE, <<[name |-> tc.name, args |-> args]>>)
                IN  IF IsAsyncTool(tc.name)
                    THEN /\ turn' = Mine(t, [tr EXCEPT !.pc = "toolWait"])
                         /\ toolStore' = ts
                         /\ UNCHANGED <<settingsStore, retry>>
                         /\ UNCHANGED <<chatStore, nextId, wire>>
                    ELSE \E outcome \in executeToolCall(tc.name, args) :
                            GroqToolDone(t, tr, ts, outcome)

\* A network-bound handler settles
GroqToolReturn(t) ==
    LET tr == turn[t]
        tc == tr.toolCalls_internal[tr.tcIdx]
    IN  /\ tr.pc = "toolWait"
        /\ tr.provider = "groq"
        /\ \E outcome \in executeToolCall(tc.name, JSONparse(tc.arguments)[1]) :
              GroqToolDone(t, tr, toolStore, outcome)

\* A provider request or its stream rejects
ProviderError(t) ==
    \E message \in {ProviderErrorText, ""} :
        /\ turn[t].pc \in {"stream", "gfirst", "gfollow"}
        /\ Catch(t, turn[t], message)
        /\ UNCHANGED wire

(***************************************************************************)
(* Gemini adapter (lib/gemini/client.ts sendMessage).  ChatContainer       *)
(* passes onToken as the third argument, which is the adapter's onToolCall *)
(* parameter; the fourth argument has no parameter to bind to.             *)
(***************************************************************************)
GeminiCalls ==
    { [name |-> <<"calculate">>, args |-> "full"],
      [name |-> <<"calculate">>, args |-> "empty"],
      [name |-> <<"web_search">>, args |-> "full"],
      [name |-> <<"bogus_tool">>, args |-> "empty"] }
FunctionCallLists ==
    { <<>> } \cup { <<c>> : c \in GeminiCalls }
             \cup { <<c, d>> : c \in GeminiCalls, d \in GeminiCalls }

\* chat.sendMessage(message) resolves with text and function calls
GeminiFirstResponse(t, lists) ==
    \E text \in Deltas, calls \in lists :
        LET tr == turn[t] IN
        /\ tr.pc = "gfirst"
        /\ TotalDeltas < MaxDeltas
        /\ TotalFragments + Len(calls) <= MaxFragments
        /\ wire' = Sent(t, <<text>>, calls, Len(calls), 0)
        /\ IF Len(calls) = 0
           THEN FinalUpdate(t, tr, text, <<>>)
           ELSE /\ turn' = Mine(t, [tr EXCEPT !.pc = "tools", !.tcIdx = 1,
                                              !.functionCalls = calls])
                /\ UNCHANGED <<chatStore, toolStore, settingsStore, retry, nextId>>

\* After executeToolCall has settled for the call at tcIdx
GeminiToolDone(t, tr, s, outcome) ==
    IF outcome.kind = "throw"
    THEN /\ Catch(t, tr, outcome.message)
         /\ UNCHANGED wire
    ELSE LET fc == tr.functionCalls[tr.tcIdx]
             tr1 == [tr EXCEPT !.toolCalls = Append(@, [name |-> fc.name, args |-> fc.args,
                                                        result |-> outcome.result])]
             last == tr.tcIdx = Len(tr.functionCalls)
         IN  /\ turn' = Mine(t,
                  IF last
                  THEN [tr1 EXCEPT !.pc = "gfollow", !.tcIdx = 0,
                          !.requests = Append(@, @[1]),
                          !.functionResponseParts =
                              [k \in 1..Len(tr1.toolCalls) |->
                                  [name |-> tr1.toolCalls[k].name,
                                   response |-> tr1.toolCalls[k].result]]]
                  ELSE [tr1 EXCEPT !.pc = "tools", !.tcIdx = @ + 1])
             /\ wire' = Sent(t, <<>>, <<>>, 0, IF last THEN 1 ELSE 0)
             /\ chatStore' = s
             /\ UNCHANGED <<toolStore, settingsStore, retry, nextId>>

\* One iteration of for (const fc of functionCalls), up to its await:
\* onToolCall(fc.name, args) runs onToken with the tool's name as the token
GeminiExecTool(t) ==
    LET tr == turn[t]
        fc == tr.functionCalls[tr.tcIdx]
        s == onToken(chatStore, tr, fc.name)
        tr1 == [tr EXCEPT !.fullAssistantText = @ \o fc.name]
    IN  /\ tr.pc = "tools"
        /\ tr.provider = "gemini"
        /\ IF IsAsyncTool(fc.name)
           THEN /\ turn' = Mine(t, [tr1 EXCEPT !.pc = "toolWait"])
                /\ chatStore' = s
                /\ UNCHANGED <<toolStore, settingsStore, retry, nextId, wire>>
           ELSE \E outcome \in executeToolCall(fc.name, fc.args) :
                   GeminiToolDone(t, tr1, s, outcome)

\* A network-bound handler settles
GeminiToolReturn(t) ==
    LET tr == turn[t]
        fc == tr.functionCalls[tr.tcIdx]
    IN  /\ tr.pc = "toolWait"
        /\ tr.provider = "gemini"
        /\ \E outcome \in executeToolCall(fc.name, fc.args) :
              GeminiToolDone(t, tr, chatStore, outcome)

\* chat.sendMessage(functionResponseParts) resolves; its function calls are not read
GeminiFollowUp(t) ==
    \E text \in Deltas, calls \in FunctionCallLists :
        LET tr == turn[t] IN
        /\ tr.pc = "gfollow"
        /\ TotalDeltas < MaxDeltas
        /\ TotalFragments + Len(calls) <= MaxFragments
        /\ wire' = Sent(t, <<text>>, calls, Len(calls), 0)
        /\ FinalUpdate(t, tr, text, <<tr.toolCalls>>)

(***************************************************************************)
(* Sidebar and Header                                                      *)
(***************************************************************************)
\* handleNewChat: createConversation(); setActiveConversation(id)
NewChat ==
    /\ nextId.conv <= MaxConvs
    /\ chatStore' = setActiveConversation(
                        createConversation(chatStore, nextId.conv, <<>>), nextId.conv)
    /\ nextId' = [nextId EXCEPT !.conv = @ + 1]
    /\ UNCHANGED <<toolStore, settingsStore, retry, turn, wire>>

\* handleSelectConversation(id)
SelectConversation ==
    \E i \in 1..Len(chatStore.conversations) :
        /\ chatStore.conversations[i].id # chatStore.activeConversationId
        /\ chatStore' = setActiveConversation(chatStore, chatStore.conversations[i].id)
        /\ UNCHANGED <<toolStore, settingsStore, retry, nextId, turn, wire>>

\* handleDelete(id)
DeleteConversation ==
    \E i \in 1..Len(chatStore.conversations) :
        /\ chatStore' = deleteConversation(chatStore, chatStore.conversations[i].id)
        /\ UNCHANGED <<toolStore, settingsStore, retry, nextId, turn, wire>>

(***************************************************************************)
(* Specifications.  Spec is the whole program.  SpecTurn is one invocation *)
(* with every provider behaviour; SpecChat is the user interface with two  *)
(* invocations and providers that answer with text only.                   *)
(***************************************************************************)
Next ==
    \/ NewChat
    \/ SelectConversation
    \/ DeleteConversation
    \/ \E t \in Turns : FormSubmit(t)
    \/ \E t \in Turns : SuggestionClick(t)
    \/ \E t \in Turns : GroqContent(t)
    \/ \E t \in Turns : GroqToolCallChunk(t)
    \/ \E t \in Turns : GroqStreamEnd(t)
    \/ \E t \in Turns : GroqExecTool(t)
    \/ \E t \in Turns : GroqToolReturn(t)
    \/ \E t \in Turns : GeminiFirstResponse(t, FunctionCallLists)
    \/ \E t \in Turns : GeminiExecTool(t)
    \/ \E t \in Turns : GeminiToolReturn(t)
    \/ \E t \in Turns : GeminiFollowUp(t)
    \/ \E t \in Turns : ProviderError(t)

Spec == Init /\ [][Next]_vars

NextTurn ==
    \/ FormSubmit(1)
    \/ GroqContent(1)
    \/ GroqToolCallChunk(1)
    \/ GroqStreamEnd(1)
    \/ GroqExecTool(1)
    \/ GroqToolReturn(1)
    \/ GeminiFirstResponse(1, FunctionCallLists)
    \/ GeminiExecTool(1)
    \/ GeminiToolReturn(1)
    \/ GeminiFollowUp(1)
    \/ ProviderError(1)

SpecTurn == Init /\ [][NextTurn]_vars

NextChat ==
    \/ NewChat
    \/ SelectConversation
    \/ DeleteConversation
    \/ \E t \in Turns : FormSubmit(t)
    \/ \E t \in Turns : SuggestionClick(t)
    \/ \E t \in Turns : GroqContent(t)
    \/ \E t \in Turns : GroqStreamEnd(t)
    \/ \E t \in Turns : GeminiFirstResponse(t, { <<>> })
    \/ \E t \in Turns : ProviderError(t)

SpecChat == Init /\ [][NextChat]_vars

\* Turns in which the provider streams text and requests no tool
NextText ==
    \/ \E t \in Turns : FormSubmit(t)
    \/ \E t \in Turns : GroqContent(t)
    \/ \E t \in Turns : GroqStreamEnd(t)
    \/ \E t \in Turns : GeminiFirstResponse(t, { <<>> })
    \/ \E t \in Turns : ProviderError(t)

SpecText == Init /\ [][NextText]_vars

\* handleSendMessage called with any text, in any state of the conversations
NextSubmit ==
    \/ NewChat
    \/ SelectConversation
    \/ DeleteConversation
    \/ \E t \in Turns : CallHandleSendMessage(t)
    \/ \E t \in Turns : GroqContent(t)
    \/ \E t \in Turns : GroqStreamEnd(t)
    \/ \E t \in Turns : GeminiFirstResponse(t, { <<>> })
    \/ \E t \in Turns : ProviderError(t)

SpecSubmit == Init /\ [][NextSubmit]_vars

(***************************************************************************)
(* Tool panel and settings, around one invocation                          *)
(***************************************************************************)
\* ToolTogglePanel: toggleTool(tool.id)
ToggleTool ==
    \E toolId \in ToolIds :
        /\ toolStore' = toggleTool(toolStore, toolId)
        /\ UNCHANGED <<chatStore, nextId, turn, wire, settingsStore, retry>>

\* setTemperature(temperature), from the slider
SetTemperature ==
    \E temperature \in Temperatures :
        /\ settingsStore.temperature # temperature
        /\ settingsStore' = [settingsStore EXCEPT !.temperature = temperature]
        /\ UNCHANGED retry
        /\ UNCHANGED <<chatStore, toolStore, nextId, turn, wire>>

\* setTopP(topP), from the slider
SetTopP ==
    \E topP \in TopPs :
        /\ settingsStore.topP # topP
        /\ settingsStore' = [settingsStore EXCEPT !.topP = topP]
        /\ UNCHANGED retry
        /\ UNCHANGED <<chatStore, toolStore, nextId, turn, wire>>

\* The tool panel around one invocation whose provider asks for tools
NextTools ==
    \/ ToggleTool
    \/ FormSubmit(1)
    \/ GroqToolCallChunk(1)
    \/ GroqStreamEnd(1)
    \/ GroqExecTool(1)
    \/ GroqToolReturn(1)
    \/ GeminiFirstResponse(1, FunctionCallLists)
    \/ GeminiExecTool(1)
    \/ GeminiToolReturn(1)
    \/ GeminiFollowUp(1)

SpecTools == Init /\ [][NextTools]_vars

\* The sliders around one invocation whose provider asks for tools
NextSettings ==
    \/ SetTemperature
    \/ SetTopP
    \/ FormSubmit(1)
    \/ GroqToolCallChunk(1)
    \/ GroqStreamEnd(1)
    \/ GroqExecTool(1)
    \/ GroqToolReturn(1)
    \/ GeminiFirstResponse(1, FunctionCallLists)
    \/ GeminiExecTool(1)
    \/ GeminiToolReturn(1)
    \/ GeminiFollowUp(1)

SpecSettings == Init /\ [][NextSettings]_vars

(***************************************************************************)
(* withRetry (utils/rateLimiter.ts)                                        *)
(***************************************************************************)
\* The default shouldRetry: the message names a rate limit, a server error
\* or a timeout
shouldRetry(error) == error \in RetryableErrors

Min(a, b) == IF a <= b THEN a ELSE b

\* Math.min(baseDelay, maxDelay): no backoff
DelayNoBackoff(r) == Min(r.baseDelay, r.maxDelay)

\* Math.min(baseDelay * Math.pow(2, attempt), maxDelay)
Delay(r) == Min(r.baseDelay * 2^r.attempt, r.maxDelay)

\* delay * 0.1 * Math.random(): from 0 to just below a tenth of the delay
Jitters(delay) == { 0, (delay \div 10) - 1 }

\* attempt === maxRetries - 1
LastAttempt(r) == r.attempt = r.maxRetries - 1

\* for (attempt ...; attempt < maxRetries; ...) { try { return await fn() ... :
\* the loop test, then the call of fn or the throw after the loop
EnterLoop(r) ==
    IF r.attempt < r.maxRetries
    THEN [r EXCEPT !.pc = "calling", !.calls = @ + 1]
    ELSE [r EXCEPT !.pc = "thrown"]

\* withRetry(fn, { maxRetries, baseDelay, maxDelay })
CallWithRetry ==
    \E maxRetries \in RetryCounts, baseDelay \in BaseDelays, maxDelay \in MaxDelays :
        /\ retry.pc = "idle"
        /\ retry' = EnterLoop([IdleRetry EXCEPT !.maxRetries = maxRetries,
                                                !.baseDelay = baseDelay,
                                                !.maxDelay = maxDelay])
        /\ UNCHANGED <<chatStore, toolStore, nextId, turn, wire, settingsStore>>

\* fn() resolves: return its result
FnResolves ==
    /\ retry.pc = "calling"
    /\ retry' = [retry EXCEPT !.pc = "returned"]
    /\ UNCHANGED <<chatStore, toolStore, nextId, turn, wire, settingsStore>>

\* fn() rejects: the catch block throws, or sets the timeout
FnRejects ==
    \E error \in FnErrors, jitter \in Jitters(Delay(retry)) :
        LET r == [retry EXCEPT !.lastError = error, !.errors = Append(@, error)] IN
        /\ retry.pc = "calling"
        /\ retry' = IF ~shouldRetry(error) \/ LastAttempt(r)
                     THEN [r EXCEPT !.pc = "thrown"]
                     ELSE [r EXCEPT !.pc = "waiting",
                                    !.waits = Append(@, Delay(r) + jitter)]
        /\ UNCHANGED <<chatStore, toolStore, nextId, turn, wire, settingsStore>>

\* The timeout fires: attempt++ and the loop goes on
TimeoutFires ==
    /\ retry.pc = "waiting"
    /\ retry' = EnterLoop([retry EXCEPT !.attempt = @ + 1])
    /\ UNCHANGED <<chatStore, toolStore, nextId, turn, wire, settingsStore>>

NextRetry ==
    \/ CallWithRetry
    \/ FnResolves
    \/ FnRejects
    \/ TimeoutFires

SpecRetry == Init /\ [][NextRetry]_vars

(***************************************************************************)
(* The actions of useChatStore called directly, next to the user interface *)
(***************************************************************************)
\* createConversation(title?)
CallCreateConversation ==
    \E title \in Titles :
        /\ nextId.conv <= MaxConvs
        /\ chatStore' = createConversation(chatStore, nextId.conv, title)
        /\ nextId' = [nextId EXCEPT !.conv = @ + 1]
        /\ UNCHANGED <<toolStore, settingsStore, retry, turn, wire>>

\* updateConversationTitle(id, title), called to change the title
CallUpdateConversationTitle ==
    \E i \in 1..Len(chatStore.conversations), title \in ExplicitTitles :
        /\ chatStore.conversations[i].title # title
        /\ chatStore' = updateConversationTitle(chatStore,
                            chatStore.conversations[i].id, title)
        /\ UNCHANGED <<toolStore, settingsStore, retry, nextId, turn, wire>>

\* addMessage(conversationId, message) with a message of generateId()
CallAddMessage ==
    \E i \in 1..Len(chatStore.conversations), role \in {"user", "assistant"},
       content \in MessageTexts :
        /\ nextId.msg <= MaxMessages
        /\ chatStore' = addMessage(chatStore, chatStore.conversations[i].id,
                            [id |-> nextId.msg, role |-> role, content |-> content,
                             metadata |-> NoMeta])
        /\ nextId' = [nextId EXCEPT !.msg = @ + 1]
        /\ UNCHANGED <<toolStore, settingsStore, retry, turn, wire>>

\* updateMessage(conversationId, messageId, { content })
CallUpdateMessage ==
    \E i \in 1..Len(chatStore.conversations) :
        \E k \in 1..Len(chatStore.conversations[i].messages) :
            /\ chatStore' = updateMessage(chatStore, chatStore.conversations[i].id,
                                chatStore.conversations[i].messages[k].id,
                                [content |-> <<"edited">>])
            /\ UNCHANGED <<toolStore, settingsStore, retry, nextId, turn, wire>>

\* deleteMessage(conversationId, messageId)
CallDeleteMessage ==
    \E i \in 1..Len(chatStore.conversations) :
        \E k \in 1..Len(chatStore.conversations[i].messages) :
            /\ chatStore' = deleteMessage(chatStore, chatStore.conversations[i].id,
                                chatStore.conversations[i].messages[k].id)
            /\ UNCHANGED <<toolStore, settingsStore, retry, nextId, turn, wire>>

\* Conversation lists read back from what the store has saved: the stored
\* conversations in another order, without the newest one, or none
SavedLists(convs) ==
    { [k \in 1..Len(convs) |-> convs[Len(convs) + 1 - k]],
      IF convs = <<>> THEN <<>> ELSE Tail(convs),
      <<>> }

\* setConversations(conversations)
CallSetConversations ==
    \E conversations \in SavedLists(chatStore.conversations) :
        /\ chatStore' = setConversations(chatStore, conversations)
        /\ UNCHANGED <<toolStore, settingsStore, retry, nextId, turn, wire>>

\* The store's actions in any order, with one turn that ends without text or fails
NextStore ==
    \/ CallCreateConversation
    \/ CallUpdateConversationTitle
    \/ CallAddMessage
    \/ CallUpdateMessage
    \/ CallDeleteMessage
    \/ DeleteConversation
    \/ CallSetConversations
    \/ nextId.msg <= MaxMessages /\ FormSubmit(1)
    \/ GroqStreamEnd(1)
    \/ ProviderError(1)

SpecStore == Init /\ [][NextStore]_vars

TypeOK ==
    /\ chatStore.isGenerating \in BOOLEAN
    /\ toolStore.isExecuting \in BOOLEAN
    /\ nextId.conv \in Nat /\ nextId.msg \in Nat
    /\ \A t \in Turns : turn[t].pc \in
          {"idle", "returned", "stream", "tools", "toolWait", "gfirst", "gfollow",
           "done", "failed"}
    /\ retry.pc \in {"idle", "calling", "waiting", "returned", "thrown"}
    /\ retry.attempt \in Nat /\ retry.calls \in Nat

(***************************************************************************)
(* Vocabulary of the properties                                            *)
(***************************************************************************)
\* The invocation has reached finally { ... }
Ended(t) == turn[t].pc \in {"done", "failed"}

\* The invocation waits for the provider or for a tool
InFlight(t) == turn[t].pc \in {"stream", "tools", "toolWait", "gfirst", "gfollow"}

MessagesOf(convId) ==
    IF HasConv(chatStore.conversations, convId)
    THEN ConvOf(chatStore.conversations, convId).messages
    ELSE <<>>

\* The placeholder assistant message the invocation opened, while it exists
HasAssistantMessage(t) ==
    \E k \in 1..Len(MessagesOf(turn[t].convId)) :
        MessagesOf(turn[t].convId)[k].id = turn[t].msgId

AssistantMessage(t) ==
    LET ms == MessagesOf(turn[t].convId)
    IN  ms[CHOOSE k \in 1..Len(ms) : ms[k].id = turn[t].msgId]

\* The entries of metadata.toolResults (null has none)
ToolResultsOf(m) ==
    IF "toolResults" \in DOMAIN m.metadata /\ ~m.metadata.toolResults.null
    THEN m.metadata.toolResults.calls
    ELSE <<>>

\* A tool-loop cap that the model's fragment budget can exceed
ToolLoopCap == MaxFragments - 1

(***************************************************************************)
(* Properties                                                              *)
(***************************************************************************)
\* C1: at most one turn per conversation is in flight: no two invocations of
\* handleSendMessage that are both waiting for a provider or a tool belong to
\* the same conversation (a second submission would have been rejected).
C1_SingleFlight ==
    \A t, u \in Turns :
        t # u /\ InFlight(t) /\ InFlight(u) => turn[t].convId # turn[u].convId

\* C2: once a turn has ended, by completion or by any error, no message of
\* its conversation has metadata.isStreaming = true.
C2_NoDanglingStreaming ==
    \A t \in Turns :
        Ended(t) =>
            \A k \in 1..Len(MessagesOf(turn[t].convId)) :
                ~IsStreaming(MessagesOf(turn[t].convId)[k])

\* C3: the tool-call cycle has a hard cap: a turn whose tool rounds exceed the
\* cap fails with ToolLoopExceeded, so no turn with more rounds than the cap
\* completes normally.
C3_ToolLoopCapped ==
    \A t \in Turns :
        wire[t].rounds > ToolLoopCap =>
            turn[t].pc # "done" /\
            (turn[t].pc = "failed" => turn[t].errorMessage = "ToolLoopExceeded")

\* C4: for a completed turn with one or more tool rounds, the content of the
\* finalized assistant message is the concatenation, in arrival order, of all
\* text deltas of every sub-round.
C4_MultiRoundConcat ==
    \A t \in Turns :
        turn[t].pc = "done" /\ wire[t].rounds >= 1 /\ HasAssistantMessage(t) =>
            AssistantMessage(t).content = Concat(wire[t].emitted)

\* C5 as stated: for a completed turn without tool calls, the content of the
\* finalized assistant message is the exact concatenation of the emitted
\* deltas, also when that concatenation is empty.
C5_ExactConcatAlways ==
    \A t \in Turns :
        turn[t].pc = "done" /\ wire[t].nfrags = 0 /\ HasAssistantMessage(t) =>
            AssistantMessage(t).content = Concat(wire[t].emitted)

\* C5 amended: for a completed turn without tool calls, the content of the
\* finalized assistant message is the exact concatenation of the emitted
\* deltas when that concatenation is not empty, and the fixed text
\* 'I received an empty response from the AI.' when it is empty.
C5_ExactConcatOrFallback ==
    \A t \in Turns :
        turn[t].pc = "done" /\ wire[t].nfrags = 0 /\ HasAssistantMessage(t) =>
            AssistantMessage(t).content =
                IF Concat(wire[t].emitted) # <<>> THEN Concat(wire[t].emitted)
                ELSE EmptyResponseText

\* A turn without tool calls has completed after the deltas "a" and "b"
C5_Witness ==
    \E t \in Turns :
        /\ turn[t].pc = "done" /\ wire[t].nfrags = 0 /\ HasAssistantMessage(t)
        /\ wire[t].emitted = << <<"a">>, <<"b">> >>
        /\ AssistantMessage(t).content = <<"a", "b">>

\* C6: a tool name without a handler never raises past executeToolCall: no
\* turn is aborted by the error 'Unknown tool'.
C6_UnknownToolContained ==
    \A t \in Turns : turn[t].errorMessage # UnknownToolText

\* C7: no handler throws, whatever the argument map, also when a required
\* argument is missing: no turn is aborted by a handler's exception.
C7_HandlersNeverThrow ==
    \A t \in Turns : turn[t].errorMessage \notin {ReplaceErrorText, UpperCaseErrorText}

\* C8: tool-call arguments that do not parse become a failed tool result and
\* the turn continues: no turn is aborted by the parse error.
C8_MalformedArgsContained ==
    \A t \in Turns : turn[t].errorMessage # SyntaxErrorText

\* C9: when a turn fails after its assistant message was opened, that same
\* message is finalized with the partial content, an error in its metadata
\* and isStreaming = false; the store's error is the turn's error and
\* isGenerating is false.
C9_FailedTurnFinalized ==
    \A t \in Turns :
        turn[t].pc = "failed" /\ HasAssistantMessage(t) =>
            /\ AssistantMessage(t).content = turn[t].fullAssistantText
            /\ "error" \in DOMAIN AssistantMessage(t).metadata
            /\ ~IsStreaming(AssistantMessage(t))
            /\ chatStore.error = turn[t].errorMessage
            /\ ~chatStore.isGenerating

\* C10: in a completed turn, metadata.toolResults has one entry for each
\* tool-call request the model issued in any sub-round, in request order and
\* with the request's tool name.
C10_ResultsPairRequests ==
    \A t \in Turns :
        turn[t].pc = "done" /\ HasAssistantMessage(t) =>
            LET results == ToolResultsOf(AssistantMessage(t))
            IN  /\ Len(results) = Len(wire[t].issued)
                /\ \A k \in 1..Len(results) : results[k].name = wire[t].issued[k].name

\* The argument map of a request as the adapter reads it (<<>>: unreadable)
RequestArgs(t, req) ==
    IF turn[t].provider = "groq" THEN JSONparse(req.arguments) ELSE <<req.args>>

\* The requests of the batch the adapter is executing
CurrentBatch(t) ==
    IF turn[t].provider = "groq" THEN Compact(turn[t].toolCalls_internal)
    ELSE turn[t].functionCalls

\* The role: 'tool' messages of a Groq request, in their order
ToolMessages(fm) == SelectSeq(fm, LAMBDA m : m.role = "tool")

\* C11: within a turn the tool requests are executed in the order issued and
\* one at a time (when request i is started, exactly the requests before it
\* have returned), and the results go to the model together, in request
\* order, after the whole batch has been executed.
C11_SequentialInOrder ==
    \A t \in Turns :
        LET tr == turn[t]
            issued == wire[t].issued
            results == tr.toolCalls
        IN  /\ Len(results) <= Len(issued)
            /\ \A k \in 1..Len(results) :
                  /\ results[k].name = issued[k].name
                  /\ <<results[k].args>> = RequestArgs(t, issued[k])
            /\ tr.pc \in {"tools", "toolWait"} =>
                  Len(results) = Len(issued) - Len(CurrentBatch(t)) + tr.tcIdx - 1
            /\ tr.pc = "gfollow" =>
                  /\ Len(results) = Len(issued)
                  /\ Len(tr.functionResponseParts) = Len(issued)
                  /\ \A k \in 1..Len(issued) :
                        /\ tr.functionResponseParts[k].name = issued[k].name
                        /\ tr.functionResponseParts[k].response = results[k].result
            /\ tr.pc = "stream" =>
                  LET sent == ToolMessages(tr.fullMessages)
                  IN  /\ Len(results) = Len(issued)
                      /\ Len(sent) = Len(issued)
                      /\ \A k \in 1..Len(issued) :
                            /\ sent[k].tool_call_id = issued[k].id
                            /\ sent[k].name = issued[k].name
                            /\ sent[k].content = JSONstringify(results[k].result)

\* Two different tools of one batch have run and their results were sent
C11_Witness ==
    \E t \in Turns :
        /\ turn[t].pc = "stream" /\ wire[t].rounds = 1
        /\ Len(turn[t].toolCalls) = 2
        /\ turn[t].toolCalls[1].name = <<"calculate">>
        /\ turn[t].toolCalls[2].name = <<"web_search">>
        /\ ToolMessages(turn[t].fullMessages)[2].name = <<"web_search">>

\* The request at tcIdx as { name, args }
CurrentRequest(t) ==
    IF turn[t].provider = "groq"
    THEN LET tc == turn[t].toolCalls_internal[turn[t].tcIdx]
         IN  [name |-> tc.name, args |-> JSONparse(tc.arguments)[1]]
    ELSE LET fc == turn[t].functionCalls[turn[t].tcIdx]
         IN  [name |-> fc.name, args |-> fc.args]

\* C12: under both providers, when a tool starts and its result is not yet
\* known, setExecuting(true, {name, args}) has been applied, so that
\* currentToolCall names exactly that tool, and the notification has left
\* every message's content unchanged.
C12_NotifiedBeforeExecution ==
    [][\A t \in Turns :
          turn[t].pc = "tools" /\ turn'[t].pc = "toolWait" =>
              /\ toolStore'.isExecuting
              /\ toolStore'.currentToolCall = <<CurrentRequest(t)>>
              /\ chatStore'.conversations = chatStore.conversations]_vars

\* C13: under both providers, while a turn is in flight and k text deltas
\* have been received, the assistant message of the turn has content equal
\* to the concatenation of deltas 1..k and isStreaming = true.
C13_IncrementalUpdates ==
    \A t \in Turns :
        InFlight(t) /\ HasAssistantMessage(t) =>
            /\ AssistantMessage(t).content = Concat(wire[t].emitted)
            /\ IsStreaming(AssistantMessage(t))

\* A text that is empty or consists of spaces only
IsBlank(content) == \A i \in 1..Len(content) : content[i] = " "

\* C14: a call of handleSendMessage with an empty or whitespace-only text is
\* a no-op in every state: the chat store (conversations with their messages,
\* messageCount and updatedAt, the active conversation, isGenerating and
\* error), the tool store and every other turn are unchanged, no id is
\* consumed and no provider call is started.
C14_EmptySubmissionNoOp ==
    [][\A t \in Turns :
          turn[t].pc = "idle" /\ turn'[t].pc # "idle" /\ IsBlank(turn'[t].content) =>
              /\ chatStore' = chatStore
              /\ toolStore' = toolStore
              /\ settingsStore' = settingsStore
              /\ retry' = retry
              /\ nextId' = nextId
              /\ wire' = wire
              /\ turn'[t].pc = "returned"
              /\ \A u \in Turns \ {t} : turn'[u] = turn[u]]_vars

\* A whitespace-only text was submitted while another turn was streaming
C14_Witness ==
    /\ turn[1].pc = "stream"
    /\ turn[2].pc = "returned" /\ turn[2].content = <<" ">>
    /\ Len(chatStore.conversations) = 1
    /\ chatStore.conversations[1].messageCount = 2
    /\ chatStore.conversations[1].updatedAt = 2

\* The messages of a conversation in the store s (none when it is absent)
MessagesIn(s, convId) ==
    IF HasConv(s.conversations, convId)
    THEN ConvOf(s.conversations, convId).messages
    ELSE <<>>

\* C15: a provider failure aborts the current turn only.  No step of a turn,
\* from its submission to its failure, changes, removes or reorders a message
\* of the conversation other than the turn's own placeholder; the failure
\* step only appends one message; and after it isGenerating is false, so the
\* next submission to the conversation is accepted.
C15_FailureKeepsHistory ==
    [][\A t \in Turns :
          turn'[t] # turn[t] /\ turn'[t].pc # "returned" =>
              LET c == turn'[t].convId
                  old == MessagesIn(chatStore, c)
                  new == MessagesIn(chatStore', c)
              IN  /\ Len(new) >= Len(old)
                  /\ \A k \in 1..Len(old) :
                        old[k].id # turn'[t].msgId => new[k] = old[k]
                  /\ turn'[t].pc = "failed" =>
                        /\ ~chatStore'.isGenerating
                        /\ \A k \in 1..Len(old) : new[k] = old[k]
                        /\ HasConv(chatStore.conversations, c) =>
                              Len(new) = Len(old) + 1]_vars

\* After a failed turn, the next submission to the same conversation has
\* completed as a normal turn
C15_Witness ==
    /\ turn[1].pc = "failed" /\ turn[2].pc = "done"
    /\ turn[1].convId = turn[2].convId
    /\ Len(MessagesOf(turn[2].convId)) = 5
    /\ MessagesOf(turn[2].convId)[1].content = <<"hello">>
    /\ "error" \in DOMAIN MessagesOf(turn[2].convId)[3].metadata
    /\ MessagesOf(turn[2].convId)[4].role = "user"
    /\ MessagesOf(turn[2].convId)[5].content = <<"a", "b">>

\* The operations the user interface offers: the sidebar and header buttons,
\* the message form and the suggestion buttons
UserOperation ==
    \/ NewChat
    \/ SelectConversation
    \/ DeleteConversation
    \/ \E t \in Turns : FormSubmit(t)
    \/ \E t \in Turns : SuggestionClick(t)

\* The turn t has stopped: it is no longer in flight, nothing more was taken
\* from the provider, and its assistant message holds the deltas received so
\* far with isStreaming = false
Cancelled(t) ==
    /\ ~InFlight(t)'
    /\ wire' = wire
    /\ \E k \in 1..Len(MessagesIn(chatStore', turn[t].convId)) :
          LET m == MessagesIn(chatStore', turn[t].convId)[k]
          IN  /\ m.id = turn[t].msgId
              /\ m.content = Concat(wire[t].emitted)
              /\ ~IsStreaming(m)

\* C16: a turn can be cancelled: whenever a turn is in flight, an operation of
\* the user interface stops it, leaving the assistant message with the
\* concatenation of the deltas received so far and isStreaming = false, with
\* no further provider output consumed.
C16_TurnCanBeCancelled ==
    \A t \in Turns :
        InFlight(t) /\ HasAssistantMessage(t) =>
            ENABLED (UserOperation /\ Cancelled(t))

\* The message with the given id among ms (ms when there is none)
MessageWithId(ms, id) == ms[CHOOSE k \in 1..Len(ms) : ms[k].id = id]

\* C17: whatever conversation is active, every step of a turn in flight works
\* on the turn's original conversation: it leaves the active conversation id
\* and every other conversation unchanged, and its delta update, its final
\* update and its error message land in the original conversation.
C17_TurnKeepsItsConversation ==
    [][\A t \in Turns :
          InFlight(t) /\ turn'[t] # turn[t] =>
              LET c == turn[t].convId
                  old == chatStore.conversations
                  new == chatStore'.conversations
                  ms == MessagesIn(chatStore', c)
              IN  /\ turn'[t].convId = c
                  /\ chatStore'.activeConversationId = chatStore.activeConversationId
                  /\ Len(new) = Len(old)
                  /\ \A i \in 1..Len(old) : old[i].id # c => new[i] = old[i]
                  /\ HasConv(old, c) =>
                        /\ turn'[t].fullAssistantText # turn[t].fullAssistantText =>
                              MessageWithId(ms, turn[t].msgId).content
                                  = turn'[t].fullAssistantText
                        /\ turn'[t].pc = "done" =>
                              ~IsStreaming(MessageWithId(ms, turn[t].msgId))
                        /\ turn'[t].pc = "failed" =>
                              /\ Len(ms) = Len(MessagesIn(chatStore, c)) + 1
                              /\ ms[Len(ms)].metadata = [error |-> turn'[t].errorMessage]]_vars

\* A turn is streaming into conversation 1 while the empty conversation 2 is
\* the active one
C17_Witness ==
    /\ turn[1].pc = "stream" /\ turn[1].convId = 1
    /\ chatStore.activeConversationId = 2
    /\ MessagesOf(2) = <<>>
    /\ wire[1].emitted = << <<"a">>, <<"b">> >>
    /\ HasAssistantMessage(1)
    /\ AssistantMessage(1).content = <<"a", "b">>

\* C18: after a turn in which tools were executed, the toolsUsed of its
\* conversation contains the name of every tool executed in the turn.
C18_ToolsUsedTracked ==
    \A t \in Turns :
        turn[t].pc = "done" /\ HasConv(chatStore.conversations, turn[t].convId) =>
            LET used == ConvOf(chatStore.conversations, turn[t].convId).toolsUsed
            IN  \A k \in 1..Len(turn[t].toolCalls) :
                    \E j \in 1..Len(used) : used[j] = turn[t].toolCalls[k].name

\* C19: when the first message of a conversation is appended and it is a user
\* message, a title that was given explicitly (to createConversation or by
\* updateConversationTitle) is left unchanged; otherwise the title becomes the
\* first six words of the message, followed by '...' when the message is longer.
C19_ExplicitTitleKept ==
    [][\A i \in 1..Len(chatStore.conversations) :
          LET c == chatStore.conversations[i]
              d == chatStore'.conversations[i]
          IN  ( /\ i <= Len(chatStore'.conversations)
                /\ d.id = c.id
                /\ c.messages = <<>>
                /\ Len(d.messages) = 1
                /\ d.messages[1].role = "user" )
              => d.title = IF c.title \in ExplicitTitles THEN c.title
                           ELSE TitleOf(d.messages[1].content)]_vars

IsPrefix(a, b) == Len(a) <= Len(b) /\ SubSeq(b, 1, Len(a)) = a

\* C21: the content of a message that is not streaming never changes, and
\* every change of the content of a streaming message extends it.
C21_ContentAppendOnly ==
    [][\A i \in 1..Len(chatStore.conversations) :
          LET c == chatStore.conversations[i]
              new == MessagesIn(chatStore', c.id)
          IN  \A k \in 1..Len(c.messages) :
                (\E j \in 1..Len(new) : new[j].id = c.messages[k].id) =>
                    LET m == c.messages[k]
                        n == MessageWithId(new, m.id)
                    IN  IF IsStreaming(m) THEN IsPrefix(m.content, n.content)
                        ELSE n.content = m.content]_vars

\* The functions of the tools enabled in ids
EnabledFunctions(ids) ==
    { GroqToolIdToFunctionName[id] : id \in ids \cap DOMAIN GroqToolIdToFunctionName }

\* C22: every request of a turn, the first one and the ones after tool
\* results, declares only functions of tools that were enabled when the turn
\* started, under both providers.
C22_OnlyEnabledDeclared ==
    \A t \in Turns :
        \A k \in 1..Len(turn[t].requests) :
            turn[t].requests[k].tools \subseteq EnabledFunctions(turn[t].enabledToolIds)

\* A Gemini turn that started with the calculator disabled has sent its
\* follow-up request, with declarations, after the calculator was enabled
C22_Witness ==
    \E t \in Turns :
        /\ turn[t].provider = "gemini"
        /\ Len(turn[t].requests) = 2
        /\ turn[t].requests[2].tools # {}
        /\ "calculator" \notin turn[t].enabledToolIds
        /\ "calculator" \in toolStore.enabledToolIds

\* The request at tcIdx can be read: it is no hole and its arguments parse
WellFormedRequest(t) ==
    IF turn[t].provider = "groq"
    THEN LET tc == turn[t].toolCalls_internal[turn[t].tcIdx]
         IN  tc # Hole /\ JSONparse(tc.arguments) # <<>>
    ELSE TRUE

\* The outcomes of the handler registered for a declared function
HandlerOutcomes(name, args) ==
    CASE name = <<"web_search">> -> executeWebSearch(args)
      [] name = <<"get_current_time">> -> executeGetCurrentTime(args)
      [] name = <<"calculate">> -> executeCalculate(args)
      [] name = <<"get_weather">> -> executeGetWeather(args)
      [] name = <<"get_stock_price">> -> executeGetStockPrice(args)
      [] name = <<"generate_image">> -> executeGenerateImage(args)

\* C23: whatever tools are enabled, a request for a declared function is
\* executed by that function's handler: the step that settles it either
\* records the request with a payload of the handler or fails with the
\* handler's own error.
C23_DispatchIgnoresEnablement ==
    [][\A t \in Turns :
          ( /\ turn[t].pc \in {"tools", "toolWait"}
            /\ turn'[t] # turn[t]
            /\ turn'[t].pc # "toolWait"
            /\ WellFormedRequest(t)
            /\ \E f \in FunctionNames : CurrentRequest(t).name = <<f>> )
          => LET req == CurrentRequest(t)
                 done == turn'[t].toolCalls
             IN  IF turn'[t].pc = "failed"
                 THEN Throw(turn'[t].errorMessage) \in HandlerOutcomes(req.name, req.args)
                 ELSE /\ Len(done) = Len(turn[t].toolCalls) + 1
                      /\ done[Len(done)].name = req.name
                      /\ done[Len(done)].args = req.args
                      /\ Return(done[Len(done)].result)
                            \in HandlerOutcomes(req.name, req.args)]_vars

\* The calculator was disabled when the turn started and still is, and the
\* turn has executed a calculate request successfully
C23_Witness ==
    \E t \in Turns :
        /\ "calculator" \notin turn[t].enabledToolIds
        /\ "calculator" \notin toolStore.enabledToolIds
        /\ \E k \in 1..Len(turn[t].toolCalls) :
              /\ turn[t].toolCalls[k].name = <<"calculate">>
              /\ turn[t].toolCalls[k].result = Success

\* C24: every request of a turn, the first one and the ones after tool
\* results, carries the configured temperature and the configured top-p
\* unchanged, under both providers.
C24_SamplingForwarded ==
    [][\A t \in Turns :
          Len(turn'[t].requests) > Len(turn[t].requests) =>
              LET request == turn'[t].requests[Len(turn'[t].requests)]
              IN  /\ request.temperature = settingsStore.temperature
                  /\ request.topP = settingsStore.topP]_vars

\* C25: isGenerating is true exactly while a turn is in flight: from the
\* moment handleSendMessage has accepted a submission until that turn ends.
C25_GeneratingWhileInFlight ==
    chatStore.isGenerating <=> \E t \in Turns : InFlight(t)

\* The assistant message the invocation created, as it is in store s
OwnMessage(s, t) ==
    SelectSeq(MessagesIn(s, turn[t].convId), LAMBDA m : m.id = turn[t].msgId)

\* C26: while two turns are in flight, a step of one of them (a text delta,
\* its final update or its failure) leaves the other turn's assistant
\* message as it was, and a delta or final update changes its own assistant
\* message only.
C26_TurnsWriteOwnMessage ==
    [][\A t \in Turns : \A u \in Turns \ {t} :
          InFlight(t) /\ InFlight(u) /\ turn'[t] # turn[t] /\ turn'[u] = turn[u] =>
              /\ OwnMessage(chatStore', u) = OwnMessage(chatStore, u)
              /\ \A i \in 1..Len(chatStore.conversations) :
                    LET old == chatStore.conversations[i].messages
                        new == chatStore'.conversations[i].messages
                    IN  \A k \in 1..Len(old) :
                           old[k].id # turn[t].msgId => new[k] = old[k]]_vars

\* Two turns of one conversation are in flight and each has streamed its
\* own text into its own message
C26_Witness ==
    /\ InFlight(1) /\ InFlight(2)
    /\ turn[1].convId = turn[2].convId
    /\ OwnMessage(chatStore, 1) # <<>> /\ OwnMessage(chatStore, 2) # <<>>
    /\ OwnMessage(chatStore, 1)[1].content = <<"a">>
    /\ OwnMessage(chatStore, 2)[1].content = <<"b">>

\* C27: activeConversationId is null or the id of a conversation in the list.
C27_ActiveConversationListed ==
    \/ chatStore.activeConversationId = NoConv
    \/ HasConv(chatStore.conversations, chatStore.activeConversationId)

\* C28: once the conversation of a turn in flight is no longer in the store,
\* every later step of that turn (a delta, the final update, the failure)
\* leaves the list of conversations exactly as it was.
C28_DeletedConversationStaysGone ==
    [][\A t \in Turns :
          ( /\ InFlight(t)
            /\ ~HasConv(chatStore.conversations, turn[t].convId)
            /\ turn'[t] # turn[t] )
          => chatStore'.conversations = chatStore.conversations]_vars

\* A turn has failed, its conversation is gone and its error message is in
\* no conversation, while another conversation holds messages
C28_Witness ==
    \E t \in Turns :
        /\ turn[t].pc = "failed"
        /\ ~HasConv(chatStore.conversations, turn[t].convId)
        /\ \E i \in 1..Len(chatStore.conversations) :
              chatStore.conversations[i].messages # <<>>
        /\ \A i \in 1..Len(chatStore.conversations) :
              \A k \in 1..Len(chatStore.conversations[i].messages) :
                  chatStore.conversations[i].messages[k].metadata
                      # [error |-> turn[t].errorMessage]

\* The fragments of a stream that carry the index, in arrival order
FragmentsAt(frags, index) == SelectSeq(frags, LAMBDA f : f.index = index)

\* The non-empty pieces of a field of the fragments, in their order
NamePieces(fs) ==
    Concat([k \in 1..Len(fs) |-> IF fs[k].name = "" THEN <<>> ELSE <<fs[k].name>>])
ArgumentPieces(fs) ==
    Concat([k \in 1..Len(fs) |->
               IF fs[k].arguments = "" THEN <<>> ELSE <<fs[k].arguments>>])

\* The last non-empty id of the fragments, "" when there is none
LastId(fs) ==
    LET ids == { k \in 1..Len(fs) : fs[k].id # "" }
    IN  IF ids = {} THEN "" ELSE fs[CHOOSE k \in ids : \A j \in ids : j <= k].id

\* C29: in the Groq adapter the pending requests are the fragments of the
\* stream gathered by index: the entry of an index has the names and the
\* argument pieces of that index's fragments concatenated in arrival order
\* and the last non-empty id; an index without fragments has no entry, so
\* the list is empty when a follow-up stream starts; and the requests are
\* executed in ascending index order.
C29_FragmentsAssembled ==
    \A t \in Turns :
        turn[t].provider = "groq" /\ turn[t].pc \in {"stream", "tools", "toolWait"} =>
            LET arr == turn[t].toolCalls_internal
                frags == wire[t].fragments
                done == turn[t].toolCalls
            IN  /\ \A k \in 1..Len(frags) : frags[k].index + 1 <= Len(arr)
                /\ \A index \in 0..(Len(arr) - 1) :
                      LET fs == FragmentsAt(frags, index)
                      IN  IF fs = <<>> THEN arr[index + 1] = Hole
                          ELSE arr[index + 1] = [id |-> LastId(fs),
                                                 name |-> NamePieces(fs),
                                                 arguments |-> ArgumentPieces(fs)]
                /\ Len(arr) > 0 => arr[Len(arr)] # Hole
                /\ turn[t].pc \in {"tools", "toolWait"} =>
                      /\ Len(done) >= turn[t].tcIdx - 1
                      /\ \A k \in 1..(turn[t].tcIdx - 1) :
                            /\ arr[k] # Hole
                            /\ done[Len(done) - (turn[t].tcIdx - 1) + k].name = arr[k].name

\* Index 1 appeared before index 0, and the request of index 0 has been
\* executed first
C29_Witness ==
    \E t \in Turns :
        /\ turn[t].provider = "groq"
        /\ turn[t].pc = "tools"
        /\ turn[t].tcIdx = 2
        /\ Len(wire[t].fragments) = 2
        /\ wire[t].fragments[1].index = 1
        /\ wire[t].fragments[2].index = 0
        /\ wire[t].fragments[1].name # wire[t].fragments[2].name
        /\ Len(turn[t].toolCalls) = 1
        /\ turn[t].toolCalls[1].name = <<wire[t].fragments[2].name>>

\* C30: withRetry called with maxRetries >= 1 invokes fn at most maxRetries
\* times; a success is returned at once (it is the last call); an error that
\* shouldRetry rejects is rethrown by the attempt that met it, before any
\* further wait; when every attempt fails with a retryable error the last
\* error is thrown after exactly maxRetries attempts; and the wait after
\* attempt k (from 0) is at least min(baseDelay * 2^k, maxDelay).
C30_RetryBounded ==
    retry.maxRetries >= 1 =>
        /\ retry.calls <= retry.maxRetries
        /\ retry.pc = "returned" => retry.calls = Len(retry.errors) + 1
        /\ \A k \in 1..Len(retry.errors) :
              retry.errors[k] \notin RetryableErrors =>
                  /\ retry.pc = "thrown"
                  /\ k = Len(retry.errors)
                  /\ retry.calls = k
                  /\ retry.lastError = retry.errors[k]
                  /\ Len(retry.waits) = k - 1
        /\ ( /\ retry.pc = "thrown"
             /\ \A k \in 1..Len(retry.errors) : retry.errors[k] \in RetryableErrors )
           => /\ retry.calls = retry.maxRetries
              /\ Len(retry.errors) = retry.maxRetries
              /\ retry.lastError = retry.errors[Len(retry.errors)]
        /\ \A k \in 1..Len(retry.waits) :
              retry.waits[k] >=
                  IF retry.baseDelay * 2^(k - 1) <= retry.maxDelay
                  THEN retry.baseDelay * 2^(k - 1)
                  ELSE retry.maxDelay

\* Three attempts, all failed with retryable errors, the second wait capped
\* by maxDelay, and the last error thrown
C30_Witness ==
    /\ retry.pc = "thrown"
    /\ retry.maxRetries = DefaultMaxRetries
    /\ retry.calls = DefaultMaxRetries
    /\ Len(retry.waits) = 2
    /\ retry.baseDelay * 2 > retry.maxDelay
    /\ retry.waits[2] < retry.baseDelay * 2
    /\ retry.lastError \in RetryableErrors
====
